---- MODULE Spec2Model ----
(***************************************************************************)
(* The voice-scheduling client (frontend/src/components/VoiceAgent.jsx)    *)
(* and its HTTP adapter (frontend/src/services/api.js), as a state         *)
(* machine.  One action per handler or per continuation of an async        *)
(* handler after an await.  JavaScript strings are sequences of            *)
(* one-character strings, objects are functions from key names to values.  *)
(***************************************************************************)
EXTENDS Naturals, Integers, Sequences, FiniteSets, Bags, TLC

(***************************************************************************)
(* Bounds of the model.                                                    *)
(***************************************************************************)
MaxSessions == 2
MaxNotices == 2
MaxUpdatesInFlight == 1
MaxProcessInFlight == 1
MaxTokens == 4

(***************************************************************************)
(* Strings.                                                                *)
(***************************************************************************)
UpperChars == <<"A","B","C","D","E","F","G","H","I","J","K","L","M",
                "N","O","P","Q","R","S","T","U","V","W","X","Y","Z">>
LowerChars == <<"a","b","c","d","e","f","g","h","i","j","k","l","m",
                "n","o","p","q","r","s","t","u","v","w","x","y","z">>

LowerChar(c) ==
    IF \E i \in 1..Len(UpperChars) : UpperChars[i] = c
    THEN LowerChars[CHOOSE i \in 1..Len(UpperChars) : UpperChars[i] = c]
    ELSE c

\* String.prototype.toLowerCase
toLowerCase(s) == [i \in 1..Len(s) |-> LowerChar(s[i])]

\* Mutant of includes: a match of the whole text
includes_ExactMatch(t, p) == t = p

\* String.prototype.includes
includes(t, p) ==
    \E i \in 0..(Len(t) - Len(p)) : SubSeq(t, i + 1, i + Len(p)) = p

WhiteSpace == {" ", "\t", "\n"}

RECURSIVE TrimStart(_)
TrimStart(s) ==
    IF s # <<>> /\ Head(s) \in WhiteSpace THEN TrimStart(Tail(s)) ELSE s

RECURSIVE TrimEnd(_)
TrimEnd(s) ==
    IF s # <<>> /\ s[Len(s)] \in WhiteSpace
    THEN TrimEnd(SubSeq(s, 1, Len(s) - 1))
    ELSE s

\* String.prototype.trim
trim(s) == TrimEnd(TrimStart(s))

\* JavaScript truthiness of a string, and a || b on strings
Truthy(s) == s # <<>>
Or(a, b) == IF Truthy(a) THEN a ELSE b

(***************************************************************************)
(* Objects.  Reading a missing key yields undefined, which every use in    *)
(* the source treats as falsy; it is read here as the empty string.        *)
(***************************************************************************)
Get(o, k) == IF k \in DOMAIN o THEN o[k] ELSE <<>>

DetailKeys == {"name", "date", "time", "duration", "title"}

EmptyDetails ==
    [name |-> <<>>, date |-> <<>>, time |-> <<>>, duration |-> <<>>, title |-> <<>>]

\* Mutant of ConfirmPhrases: the phrases with "right" on its own
ConfirmPhrases_WithRight ==
    { <<"c","o","r","r","e","c","t">>, <<"c","o","n","f","i","r","m">>,
      <<"r","i","g","h","t">>,
      <<"y","e","s">>, <<"y","e","a","h">>, <<"y","e","p">>, <<"o","k">>,
      <<"o","k","a","y">>, <<"s","u","r","e">>,
      <<"g","o"," ","a","h","e","a","d">>,
      <<"c","r","e","a","t","e"," ","i","t">> }

\* isConfirmation (VoiceAgent.jsx 389-407)
ConfirmPhrases ==
    { <<"c","o","r","r","e","c","t">>,
      <<"c","o","n","f","i","r","m">>,
      <<"t","h","a","t","'","s"," ","r","i","g","h","t">>,
      <<"t","h","a","t"," ","i","s"," ","r","i","g","h","t">>,
      <<"y","e","s">>,
      <<"y","e","a","h">>,
      <<"y","e","p">>,
      <<"o","k">>,
      <<"o","k","a","y">>,
      <<"s","u","r","e">>,
      <<"g","o"," ","a","h","e","a","d">>,
      <<"c","r","e","a","t","e"," ","i","t">> }

isConfirmation(text) ==
    LET t == toLowerCase(text)
    IN  \E p \in ConfirmPhrases : includes(t, p)

\* isConfirmation called with an argument that may be missing: arg is <<>>
\* for undefined and <<text>> else; (text || "") at 390
isConfirmationOf(arg) == isConfirmation(IF arg = <<>> THEN <<>> ELSE arg[1])

\* aiCreating (VoiceAgent.jsx 661-662)
CreatingPhrases ==
    { <<"c","r","e","a","t","i","n","g">>,
      <<"i","'","l","l"," ","c","r","e","a","t","e">>,
      <<"i"," ","w","i","l","l"," ","c","r","e","a","t","e">> }

aiCreating(text) ==
    LET lowerText == toLowerCase(text)
    IN  \E p \in CreatingPhrases : includes(lowerText, p)

\* localReady (VoiceAgent.jsx 664 and 679): truthiness of name, date, time
localReady(d) ==
    Truthy(Get(d, "name")) /\ Truthy(Get(d, "date")) /\ Truthy(Get(d, "time"))

(***************************************************************************)
(* Inputs.  Field values, tool-call arguments and utterances the voice     *)
(* SDK can deliver.                                                        *)
(***************************************************************************)
vJane  == <<"J">>
vDate  == <<"D">>
vTime  == <<"T">>
vTitle == <<"S">>
vBlank == <<" ">>

EmptyObj == <<>>

ArgsReady == [name |-> vJane, date |-> vDate, time |-> vTime]
ArgsTitle == [title |-> vTitle]
ArgsBlank == [name |-> vBlank, date |-> vDate, time |-> vTime]

\* One call of a tool-calls message: its name, its arguments object, and
\* arguments.userDetails as a sequence of zero or one object.
ToolCall(n, a, u) == [name |-> n, args |-> a, ud |-> u]

\* The tool-calls messages of a conversation that collects a complete record
ToolMessages ==
    { << ToolCall("meeting_scheduler", ArgsReady, <<>>) >>,
      << ToolCall("create_event", EmptyObj, <<>>) >>,
      << ToolCall("meeting_scheduler", ArgsReady, <<>>),
         ToolCall("create_event", EmptyObj, <<>>) >> }

\* The tool-calls messages of a conversation that supplies a title alone, or
\* a name of white space
FieldMessages ==
    { << ToolCall("meeting_scheduler", ArgsTitle, <<>>) >>,
      << ToolCall("meeting_scheduler", ArgsBlank, <<>>) >> }

uYes      == <<"Y","e","s">>
uNo       == <<"n","o">>
uSpaces   == <<" "," ">>
uCreating == <<"C","r","e","a","t","i","n","g"," ","i","t">>
uHello    == <<"H","e","l","l","o">>

Utterances == {uYes, uNo, uSpaces, uCreating, uHello}

Null == 0
SessionIds == 1..MaxSessions

(***************************************************************************)
(* State.                                                                  *)
(***************************************************************************)
VARIABLES
    phase,                \* useState: "idle", "session", "done"
    details,              \* useState: the detail record
    sessionId,            \* useState
    micError,             \* useState: the error text shown to the user
    messages,             \* useState: the notices appended to the chat (their number)
    isVapiConnected,      \* useState
    vapiRef,              \* useRef: TRUE when a Vapi instance exists
    listenersAttachedRef, \* useRef
    startingRef,          \* useRef
    activeCallRef,        \* useRef
    creatingEventRef,     \* useRef: the event-creation guard
    sessionIdRef,         \* useRef, synchronised with sessionId by an effect
    detailsRef,           \* useRef, synchronised with details by an effect
    startPc,              \* where handleStart is suspended
    createReqs,           \* handleCreateEvent calls awaiting api.createEvent
    updReqs,              \* message handlers awaiting api.updateDetails
    procReqs,             \* message handlers awaiting api.processTranscript
    env,                  \* import.meta.env: which keys are configured
    sdkCall,              \* the voice SDK's call: "none", "pending", "active"
    backend,              \* the backend's session store
    nextSid,              \* the next session id the backend hands out
    utterance,            \* the argument of a call of isConfirmation on its own
    answer,               \* what that call returned, once it has returned
    attached,             \* how many times the listeners are attached to the Vapi instance
    heard                 \* the transcript message the SDK delivered last, when observed

vars ==
    << phase, details, sessionId, micError, messages, isVapiConnected, vapiRef,
       listenersAttachedRef, startingRef, activeCallRef, creatingEventRef,
       sessionIdRef, detailsRef, startPc, createReqs, updReqs,
       procReqs, env, sdkCall, backend, nextSid, utterance, answer,
       attached, heard >>

\* The variables a message handler can change before its first await.
handlerVars ==
    << details, creatingEventRef, micError, createReqs, updReqs, procReqs >>

\* Everything else.
otherVars ==
    << phase, sessionId, messages, isVapiConnected, vapiRef, listenersAttachedRef,
       startingRef, activeCallRef, sessionIdRef, detailsRef, startPc, env,
       sdkCall, nextSid, utterance, answer, attached >>

Init ==
    /\ phase = "idle"
    /\ details = EmptyDetails
    /\ sessionId = Null
    /\ micError = ""
    /\ messages = 0
    /\ isVapiConnected = FALSE
    /\ vapiRef = FALSE
    /\ listenersAttachedRef = FALSE
    /\ startingRef = FALSE
    /\ activeCallRef = FALSE
    /\ creatingEventRef = FALSE
    /\ sessionIdRef = Null
    /\ detailsRef = EmptyDetails
    /\ startPc = "none"
    /\ createReqs = EmptyBag
    /\ updReqs = EmptyBag
    /\ procReqs = EmptyBag
    /\ env \in [publicKey : BOOLEAN, assistantId : BOOLEAN]
    /\ sdkCall = "none"
    /\ backend = [s \in SessionIds |-> EmptyDetails]
    /\ nextSid = 1
    /\ utterance = <<>>
    /\ answer = <<>>
    /\ attached = 0
    /\ heard = <<>>

(***************************************************************************)
(* The backend, which the client reaches through api.js.                   *)
(***************************************************************************)
\* Detail Merger: merge by presence over the five fields
BackendMerge(current, incoming) ==
    [k \in DetailKeys |-> Or(Get(incoming, k), current[k])]

\* Readiness Predicate: name, date and time non-empty after trimming
isReady(record) ==
    /\ trim(Get(record, "name")) # <<>>
    /\ trim(Get(record, "date")) # <<>>
    /\ trim(Get(record, "time")) # <<>>

\* What the transcript parser may extract from one utterance
Extracted == {EmptyObj}

\* A response: <<>> when the request fails (network error or a status that
\* is not ok, which api.js turns into a thrown Error), else <<body>>.
Failed == <<>>
Ok(body) == <<body>>

\* Mutant of updateDetailsArguments: the patch spread as it is, after the
\* sessionId parameter
updateDetailsArguments_PatchSpread(sid, patch) ==
    [k \in DOMAIN patch \cup {"sessionId"} |->
        IF k \in DOMAIN patch THEN patch[k] ELSE sid]

\* api.updateDetails (api.js 62-87): the tool-call arguments sent
updateDetailsArguments(sid, patch) ==
    [k \in (DOMAIN patch \ {"sessionId"}) \cup {"sessionId"} |->
        IF k = "sessionId" THEN sid ELSE patch[k]]

(***************************************************************************)
(* The client's handlers.  A handler's synchronous part works on a bundle  *)
(* c of the variables it can change, so that calls made one after another  *)
(* in one turn of the event loop see each other's writes.                  *)
(***************************************************************************)
Cur ==
    [details |-> details, creatingEventRef |-> creatingEventRef,
     micError |-> micError, createReqs |-> createReqs]

Commit(c) ==
    /\ details' = c.details
    /\ creatingEventRef' = c.creatingEventRef
    /\ micError' = c.micError
    /\ createReqs' = c.createReqs

\* handleCreateEvent up to its await (437-455)
handleCreateEvent(c, sid, readyDetails) ==
    IF sid = Null THEN c
    ELSE IF c.creatingEventRef THEN c
    ELSE [c EXCEPT
            !.creatingEventRef = TRUE,
            !.micError = "",
            !.createReqs = @ (+) SetToBag({[sid |-> sid,
                                              userDetails |-> readyDetails]})]

\* args.userDetails || args (593)
argsDetailsOf(call) == IF call.ud # <<>> THEN call.ud[1] ELSE call.args

\* the condition of the local merge (594)
mergesLocally(argsDetails) ==
    \/ Truthy(Get(argsDetails, "name"))
    \/ Truthy(Get(argsDetails, "date"))
    \/ Truthy(Get(argsDetails, "time"))

\* Mutant of mergeArgs: the two object spreads alone, without the five
\* lines that fall back to the previous value
mergeArgs_SpreadOnly(prev, argsDetails) ==
    [k \in DOMAIN prev \cup DOMAIN argsDetails |->
        IF k \in DOMAIN argsDetails THEN argsDetails[k] ELSE prev[k]]

\* the functional update passed to setDetails (596-604)
mergeArgs(prev, argsDetails) ==
    [k \in (DOMAIN prev \cup DOMAIN argsDetails) \cup DetailKeys |->
        IF k \in DetailKeys
        THEN Or(Get(argsDetails, k), Get(prev, k))
        ELSE IF k \in DOMAIN argsDetails THEN argsDetails[k] ELSE prev[k]]

\* the create_event branch of the loop (619-626)
createEventCall(c, call) ==
    IF call.name = "create_event" /\ sessionIdRef # Null
    THEN LET currentDetails == IF call.ud # <<>> THEN call.ud[1] ELSE detailsRef
         IN  handleCreateEvent(c, sessionIdRef, currentDetails)
    ELSE c

\* The for loop over the calls of a tool-calls message (579-627), run until
\* it awaits api.updateDetails or ends.  wait is <<>> at the end of the loop
\* and else holds the request sent and the calls still to run.
RECURSIVE RunCalls(_, _)
RunCalls(c, calls) ==
    IF calls = <<>> THEN [c |-> c, wait |-> <<>>]
    ELSE LET call == Head(calls) IN
         IF call.name = "meeting_scheduler" /\ sessionIdRef # Null
         THEN LET argsDetails == argsDetailsOf(call)
                  c1 == IF mergesLocally(argsDetails)
                        THEN [c EXCEPT !.details = mergeArgs(@, argsDetails)]
                        ELSE c
              IN  [c |-> c1,
                   wait |-> << [sid |-> sessionIdRef, call |-> call,
                                rest |-> Tail(calls)] >>]
         ELSE RunCalls(createEventCall(c, call), Tail(calls))

\* Runs the loop from bundle c over calls; left are the update requests that
\* stay in flight.  The backend handles the request sent, if any, at once;
\* its response is delivered later.
RunHandler(c, calls, left) ==
    LET r == RunCalls(c, calls) IN
    /\ Commit(r.c)
    /\ IF r.wait = <<>>
       THEN /\ updReqs' = left
            /\ backend' = backend
       ELSE LET w == r.wait[1]
                arguments == updateDetailsArguments(w.sid, w.call.args)
                merged == BackendMerge(backend[w.sid],
                              IF w.call.ud # <<>> THEN w.call.ud[1] ELSE arguments)
            IN  /\ BagCardinality(left) < MaxUpdatesInFlight
                /\ \E ok \in BOOLEAN :
                     /\ backend' = IF ok THEN [backend EXCEPT ![w.sid] = merged]
                                   ELSE backend
                     /\ updReqs' = left (+) SetToBag(
                          {[arguments |-> arguments,
                            resp |-> IF ok THEN Ok([userDetails |-> merged])
                                     ELSE Failed,
                            rest |-> w.rest]})

\* vapi.on("message") for a tool-calls message (572-629)
ToolCallsMessage(calls) ==
    /\ sdkCall = "active"
    /\ listenersAttachedRef
    /\ RunHandler(Cur, calls, updReqs)
    /\ UNCHANGED procReqs
    /\ UNCHANGED otherVars
    /\ UNCHANGED heard

\* the continuation after await api.updateDetails (608-617), then the rest
\* of the loop
UpdateDetailsReturn(q) ==
    /\ BagIn(q, updReqs)
    /\ LET c == IF q.resp # Failed
                THEN [Cur EXCEPT !.details = q.resp[1].userDetails]
                ELSE Cur
       IN  RunHandler(c, q.rest, updReqs (-) SetToBag({q}))
    /\ UNCHANGED procReqs
    /\ UNCHANGED otherVars
    /\ UNCHANGED heard

\* the condition of the assistant-phrase trigger (660-666)
aiTriggers(text, localDetails, creating) ==
    aiCreating(text) /\ localReady(localDetails) /\ ~creating

\* Mutant of userTriggers: the readiness gate left out
userTriggers_NoReadinessGate(text, localDetails, creating) ==
    isConfirmation(text) /\ ~creating

\* the condition of the user-confirmation trigger (677-683)
userTriggers(text, localDetails, creating) ==
    isConfirmation(text) /\ localReady(localDetails) /\ ~creating

\* Mutant of isLive: partial transcripts taken like final ones
isLive_PartialToo(text, isFinal, currentSessionId) ==
    trim(text) # <<>> /\ currentSessionId # Null

\* What the two trigger branches require of a transcript (635, 659, 672):
\* some text, a final transcript, and a session id
isLive(text, isFinal, currentSessionId) ==
    trim(text) # <<>> /\ isFinal /\ currentSessionId # Null

\* vapi.on("message") for a transcript (631-694).  The chat bubble that
\* upsertDraftMessage draws for the utterance is not part of messages here.
TranscriptHandler(role, text, isFinal, ex) ==
    /\ sdkCall = "active"
    /\ listenersAttachedRef
    /\ LET currentSessionId == sessionIdRef
           live == isLive(text, isFinal, currentSessionId)
           localDetails == detailsRef
           c1 == IF /\ role = "ai" /\ live
                    /\ aiTriggers(text, localDetails, creatingEventRef)
                 THEN handleCreateEvent(Cur, currentSessionId, localDetails)
                 ELSE Cur
           userFinal == role = "user" /\ live
           creates == /\ userFinal
                      /\ userTriggers(text, localDetails, c1.creatingEventRef)
           c2 == IF creates
                 THEN handleCreateEvent(c1, currentSessionId, localDetails)
                 ELSE c1
       IN  /\ Commit(c2)
           /\ IF userFinal /\ ~creates
              THEN \* processUserText: await api.processTranscript (413-417)
                   /\ BagCardinality(procReqs) < MaxProcessInFlight
                   /\ \E ok \in BOOLEAN :
                        LET merged == BackendMerge(backend[currentSessionId], ex) IN
                        /\ backend' = IF ok
                                      THEN [backend EXCEPT ![currentSessionId] = merged]
                                      ELSE backend
                        /\ procReqs' = procReqs (+) SetToBag(
                             {[resp |-> IF ok THEN Ok([userDetails |-> merged])
                                        ELSE Failed]})
              ELSE UNCHANGED << procReqs, backend >>
    /\ UNCHANGED updReqs
    /\ UNCHANGED otherVars

\* The handler run for a transcript message that is not observed
TranscriptMessage(role, text, isFinal, ex) ==
    /\ TranscriptHandler(role, text, isFinal, ex)
    /\ UNCHANGED heard

\* The handler run for a transcript message that is observed
TranscriptDelivered(role, text, isFinal, ex) ==
    /\ TranscriptHandler(role, text, isFinal, ex)
    /\ heard' = << [role |-> role, text |-> text, isFinal |-> isFinal] >>

\* processUserText after its await (417-427) and the caller's catch (690-692)
ProcessTranscriptReturn(q) ==
    /\ BagIn(q, procReqs)
    /\ procReqs' = procReqs (-) SetToBag({q})
    /\ details' = IF q.resp = Failed THEN details
                  ELSE IF "userDetails" \in DOMAIN q.resp[1]
                       THEN q.resp[1].userDetails
                       ELSE EmptyDetails
    /\ UNCHANGED << creatingEventRef, micError, createReqs, updReqs, backend >>
    /\ UNCHANGED otherVars
    /\ UNCHANGED heard

\* The backend's answer to api.createEvent (api.js 36-44): "success" is a
\* body with success and eventId, "failed" a body without success, "threw"
\* a status that is not ok or a network error.  The backend validates the
\* record it is sent and creates no event from one that is not ready.
CreateOutcomes(q) ==
    IF isReady(q.userDetails) THEN {"success", "failed", "threw"}
    ELSE {"failed", "threw"}

\* Mutants of the two definitions below: a failure path that gives up the
\* session, and a release written at the end of the try block instead of in
\* finally.
phaseAfterCreate_FailureToIdle(outcome) ==
    IF outcome = "success" THEN "done" ELSE "idle"

guardAfterCreate_NotOnThrow(outcome) ==
    IF outcome = "threw" THEN creatingEventRef ELSE FALSE

\* setPhase in handleCreateEvent (458-459): only a success moves the phase
phaseAfterCreate(outcome) == IF outcome = "success" THEN "done" ELSE phase

\* the finally block of handleCreateEvent (487-490)
guardAfterCreate(outcome) == FALSE

\* handleCreateEvent after its await (455-490)
CreateEventReturn(q, outcome) ==
    /\ BagIn(q, createReqs)
    /\ outcome \in CreateOutcomes(q)
    /\ createReqs' = createReqs (-) SetToBag({q})
    /\ phase' = phaseAfterCreate(outcome)
    /\ micError' = CASE outcome = "success" -> micError
                     [] outcome = "failed"  -> "Failed to create event"
                     [] outcome = "threw"   -> "Error creating event"
    /\ messages < MaxNotices
    /\ messages' = messages + 1
    /\ creatingEventRef' = guardAfterCreate(outcome)
    /\ UNCHANGED << details, sessionId, isVapiConnected, vapiRef, listenersAttachedRef,
                    startingRef, activeCallRef, sessionIdRef, detailsRef, startPc,
                    updReqs, procReqs, env, sdkCall,
                    backend, nextSid, utterance, answer,
                    attached, heard >>

\* handleStart up to await api.initSession (730-740); the Start button is
\* rendered in phase "idle" only (923-925).  setupAnalyser catches its own
\* errors and its microphone state is not modelled.
ClickStart ==
    /\ phase = "idle"
    /\ nextSid <= MaxSessions
    /\ IF startingRef
       THEN UNCHANGED << startingRef, micError, startPc >>
       ELSE /\ startingRef' = TRUE
            /\ micError' = ""
            /\ startPc' = "initSession"
    /\ UNCHANGED << phase, details, sessionId, messages, isVapiConnected, vapiRef,
                    listenersAttachedRef, activeCallRef, creatingEventRef,
                    sessionIdRef, detailsRef, createReqs, updReqs,
                    procReqs, env, sdkCall, backend, nextSid, utterance, answer,
                    attached, heard >>

\* Mutant of startingAfterExit: the return for a missing public key placed
\* outside the try block
startingAfterExit_KeptOnMissingKey(path) ==
    IF path = "noKey" THEN startingRef ELSE FALSE

\* startingRef.current = false in the finally block of handleStart
\* (770-772), which every exit passes: path is "noKey", "noAssistant",
\* "threw" or "started"
startingAfterExit(path) == FALSE

\* handleStart when api.initSession throws (766-772)
InitSessionFails ==
    /\ startPc = "initSession"
    /\ micError' = "Failed to start session"
    /\ phase' = "idle"
    /\ startingRef' = startingAfterExit("threw")
    /\ startPc' = "none"
    /\ UNCHANGED << details, sessionId, messages, isVapiConnected, vapiRef,
                    listenersAttachedRef, activeCallRef, creatingEventRef,
                    sessionIdRef, detailsRef, createReqs, updReqs,
                    procReqs, env, sdkCall, backend, nextSid, utterance, answer,
                    attached, heard >>

\* Mutant of attachesListeners: the listeners attached by every ensureVapi
attachesListeners_EveryTime == TRUE

\* the condition under which ensureVapi attaches the listeners (510)
attachesListeners == ~listenersAttachedRef

\* handleStart from the response of api.initSession to await vapi.start
\* (740-765), with ensureVapi (495-512, 710)
InitSessionReturn ==
    /\ startPc = "initSession"
    /\ nextSid' = nextSid + 1
    /\ sessionId' = nextSid
    /\ sessionIdRef' = nextSid
    /\ IF ~env.publicKey
       THEN \* ensureVapi returns null
            /\ micError' = "Vapi public key not configured"
            /\ phase' = "idle"
            /\ startingRef' = startingAfterExit("noKey")
            /\ startPc' = "none"
            /\ UNCHANGED << vapiRef, listenersAttachedRef, sdkCall, attached >>
       ELSE /\ vapiRef' = TRUE
            /\ listenersAttachedRef' = TRUE
            /\ attached' = LET onInstance == IF vapiRef THEN attached ELSE 0
                           IN  IF attachesListeners THEN onInstance + 1
                               ELSE onInstance
            /\ IF ~env.assistantId
               THEN /\ micError' = "Vapi assistant ID not configured"
                    /\ phase' = "idle"
                    /\ startingRef' = startingAfterExit("noAssistant")
                    /\ startPc' = "none"
                    /\ UNCHANGED sdkCall
               ELSE /\ phase' = "session"
                    /\ startPc' = "vapiStart"
                    /\ sdkCall' = "pending"
                    /\ UNCHANGED << micError, startingRef >>
    /\ backend' = [s \in SessionIds |-> EmptyDetails]
    /\ UNCHANGED << details, messages, isVapiConnected, activeCallRef,
                    creatingEventRef, detailsRef, createReqs, updReqs,
                    procReqs, env, utterance, answer, heard >>

\* handleStart after await vapi.start (765-772)
VapiStartReturn(ok) ==
    /\ startPc = "vapiStart"
    /\ startPc' = "none"
    /\ startingRef' = startingAfterExit(IF ok THEN "started" ELSE "threw")
    /\ IF ok
       THEN UNCHANGED << micError, phase, sdkCall >>
       ELSE /\ micError' = "Failed to start session"
            /\ phase' = "idle"
            /\ sdkCall' = IF sdkCall = "pending" THEN "none" ELSE sdkCall
    /\ UNCHANGED << details, sessionId, messages, isVapiConnected, vapiRef,
                    listenersAttachedRef, activeCallRef, creatingEventRef,
                    sessionIdRef, detailsRef, createReqs, updReqs,
                    procReqs, env, backend, nextSid, utterance, answer,
                    attached, heard >>

\* vapi.on("call-start") (514-538).  The SDK joins the call before
\* vapi.start returns and reports the call started after it.
CallStart ==
    /\ sdkCall = "pending"
    /\ startPc # "vapiStart"
    /\ listenersAttachedRef
    /\ sdkCall' = "active"
    /\ activeCallRef' = TRUE
    /\ isVapiConnected' = TRUE
    /\ UNCHANGED << phase, details, sessionId, micError, messages, vapiRef,
                    listenersAttachedRef, startingRef, creatingEventRef,
                    sessionIdRef, detailsRef, startPc, createReqs,
                    updReqs, procReqs, env, backend, nextSid, utterance, answer,
                    attached, heard >>

\* vapi.on("call-end") (540-561), when the call ends by itself.  No event
\* is delivered for a call that handleReset stopped.
CallEnd ==
    /\ listenersAttachedRef
    /\ sdkCall = "active"
    /\ sdkCall' = "none"
    /\ activeCallRef' = FALSE
    /\ isVapiConnected' = FALSE
    /\ IF creatingEventRef \/ phase = "done"
       THEN UNCHANGED << phase, messages >>
       ELSE /\ messages < MaxNotices
            /\ messages' = messages + 1
            /\ phase' = IF phase = "session" THEN "idle" ELSE phase
    /\ UNCHANGED << details, sessionId, micError, vapiRef, listenersAttachedRef,
                    startingRef, creatingEventRef, sessionIdRef, detailsRef,
                    startPc, createReqs, updReqs, procReqs, env,
                    backend, nextSid, utterance, answer,
                    attached, heard >>

\* Mutant of guardAfterReset: a reset that leaves the guard to the attempt
\* in flight
guardAfterReset_LeftToAttemptInFlight ==
    IF createReqs # EmptyBag THEN creatingEventRef ELSE FALSE

\* creatingEventRef.current = false in handleReset (801)
guardAfterReset == FALSE

\* handleReset (797-821); the Reset button is rendered in phases "session"
\* and "done" (944-1009).  The click is a discrete event, so React renders
\* and runs the two synchronising effects (309-315) before any other event
\* is handled.
handleReset ==
    /\ phase \in {"session", "done"}
    /\ sdkCall' = "none"
    /\ activeCallRef' = FALSE
    /\ creatingEventRef' = guardAfterReset
    /\ phase' = "idle"
    /\ messages' = 0
    /\ micError' = ""
    /\ details' = EmptyDetails
    /\ sessionId' = Null
    /\ isVapiConnected' = FALSE
    /\ sessionIdRef' = Null
    /\ detailsRef' = EmptyDetails
    /\ UNCHANGED << vapiRef, listenersAttachedRef, startingRef, startPc,
                    createReqs, updReqs, procReqs, env, backend, nextSid, utterance, answer,
                    attached, heard >>

\* The effects that copy sessionId and details into their refs after a
\* render (309-315)
Render ==
    /\ sessionIdRef # sessionId \/ detailsRef # details
    /\ sessionIdRef' = sessionId
    /\ detailsRef' = details
    /\ UNCHANGED << phase, details, sessionId, micError, messages, isVapiConnected,
                    vapiRef, listenersAttachedRef, startingRef, activeCallRef,
                    creatingEventRef, startPc, createReqs, updReqs,
                    procReqs, env, sdkCall, backend, nextSid, utterance, answer,
                    attached, heard >>

\* The steps of the client when the SDK's tool-calls messages are drawn from msgs
NextOver(msgs) ==
    \/ ClickStart
    \/ InitSessionFails
    \/ InitSessionReturn
    \/ \E ok \in BOOLEAN : VapiStartReturn(ok)
    \/ CallStart
    \/ CallEnd
    \/ handleReset
    \/ Render
    \/ \E calls \in msgs : ToolCallsMessage(calls)
    \/ \E q \in BagToSet(updReqs) : UpdateDetailsReturn(q)
    \/ \E role \in {"ai", "user"}, text \in Utterances, isFinal \in BOOLEAN,
          ex \in Extracted :
          TranscriptMessage(role, text, isFinal, ex)
    \/ \E q \in BagToSet(procReqs) : ProcessTranscriptReturn(q)
    \/ \E q \in BagToSet(createReqs), outcome \in {"success", "failed", "threw"} :
          CreateEventReturn(q, outcome)

Next == NextOver(ToolMessages)

Spec == Init /\ [][Next]_vars

NextFields == NextOver(FieldMessages)

SpecFields == Init /\ [][NextFields]_vars

(***************************************************************************)
(* The local merge on its own: the client is in a session whose record is  *)
(* empty, complete or partly filled, and the assistant sends               *)
(* meeting_scheduler calls whose arguments carry new values, empty values, *)
(* missing keys, or the sessionId key the backend tool expects.            *)
(***************************************************************************)
vOld == <<"O">>
vNew == <<"N">>
vSid == 2

\* The records the session may hold: nothing, everything, or name, time
\* and title alone
PrevRecords ==
    { EmptyDetails,
      [k \in DetailKeys |-> vOld],
      [name |-> vOld, date |-> <<>>, time |-> vOld, duration |-> <<>>, title |-> vOld] }

\* Arguments with every field new; with a new, an empty and a missing field;
\* with the title alone; and with the sessionId key next to a name
MergeArgs ==
    { [k \in DetailKeys |-> vNew],
      [name |-> vNew, date |-> <<>>, duration |-> vNew],
      [title |-> vNew],
      [name |-> vNew, sessionId |-> vSid] }

MergeMessages == { << ToolCall("meeting_scheduler", a, <<>>) >> : a \in MergeArgs }

InitMerge ==
    /\ phase = "session"
    /\ details \in PrevRecords
    /\ sessionId = 1
    /\ micError = ""
    /\ messages = 0
    /\ isVapiConnected = TRUE
    /\ vapiRef = TRUE
    /\ listenersAttachedRef = TRUE
    /\ startingRef = FALSE
    /\ activeCallRef = TRUE
    /\ creatingEventRef = FALSE
    /\ sessionIdRef = 1
    /\ detailsRef = details
    /\ startPc = "none"
    /\ createReqs = EmptyBag
    /\ updReqs = EmptyBag
    /\ procReqs = EmptyBag
    /\ env = [publicKey |-> TRUE, assistantId |-> TRUE]
    /\ sdkCall = "active"
    /\ backend = [s \in SessionIds |-> IF s = 1 THEN details ELSE EmptyDetails]
    /\ nextSid = 2
    /\ utterance = <<>>
    /\ answer = <<>>
    /\ attached = 1
    /\ heard = <<>>

NextMerge ==
    \/ \E calls \in MergeMessages : ToolCallsMessage(calls)
    \/ \E q \in BagToSet(updReqs) : UpdateDetailsReturn(q)
    \/ Render

SpecMerge == InitMerge /\ [][NextMerge]_vars

(***************************************************************************)
(* isConfirmation on its own: it is called once, with no argument or with  *)
(* a text put together from at most MaxTokens pieces of speech.            *)
(***************************************************************************)
tYes      == <<"Y","e","s">>
tThats    == <<","," ","t","h","a","t","'","s"," ">>
tCorrect  == <<"c","o","r","r","e","c","t">>
tISaid    == <<"I"," ","s","a","i","d"," ">>
tNo       == <<"n","o">>
tGoAhead  == <<","," ","g","o"," ","a","h","e","a","d">>
tNot      == <<"n","o","t"," ">>
tRight    == <<"r","i","g","h","t">>

Tokens == {tYes, tThats, tCorrect, tISaid, tNo, tGoAhead, tNot, tRight}

RECURSIVE TextsOf(_)
TextsOf(n) ==
    IF n = 0 THEN { <<>> }
    ELSE LET shorter == TextsOf(n - 1)
         IN  shorter \cup { t \o w : t \in shorter, w \in Tokens }

ConfirmTexts == TextsOf(MaxTokens)

InitConfirm ==
    /\ phase = "idle"
    /\ details = EmptyDetails
    /\ sessionId = Null
    /\ micError = ""
    /\ messages = 0
    /\ isVapiConnected = FALSE
    /\ vapiRef = FALSE
    /\ listenersAttachedRef = FALSE
    /\ startingRef = FALSE
    /\ activeCallRef = FALSE
    /\ creatingEventRef = FALSE
    /\ sessionIdRef = Null
    /\ detailsRef = EmptyDetails
    /\ startPc = "none"
    /\ createReqs = EmptyBag
    /\ updReqs = EmptyBag
    /\ procReqs = EmptyBag
    /\ env = [publicKey |-> TRUE, assistantId |-> TRUE]
    /\ sdkCall = "none"
    /\ backend = [s \in SessionIds |-> EmptyDetails]
    /\ nextSid = 1
    /\ utterance \in { <<>> } \cup { <<t>> : t \in ConfirmTexts }
    /\ answer = <<>>
    /\ attached = 0
    /\ heard = <<>>

\* The call returns
Classify ==
    /\ answer = <<>>
    /\ answer' = << isConfirmationOf(utterance) >>
    /\ UNCHANGED << phase, details, sessionId, micError, messages, isVapiConnected,
                    vapiRef, listenersAttachedRef, startingRef, activeCallRef,
                    creatingEventRef, sessionIdRef, detailsRef, startPc,
                    createReqs, updReqs, procReqs, env, sdkCall, backend,
                    nextSid, utterance, attached, heard >>

NextConfirm == Classify

SpecConfirm == InitConfirm /\ [][NextConfirm]_vars

(***************************************************************************)
(* The transcript branch on its own: the client is in a session whose      *)
(* record is empty or complete, and the SDK delivers partial and final     *)
(* transcripts of both roles, each of which is observed.                   *)
(***************************************************************************)
InitTranscript ==
    /\ phase = "session"
    /\ details \in {EmptyDetails, BackendMerge(EmptyDetails, ArgsReady)}
    /\ sessionId = 1
    /\ micError = ""
    /\ messages = 0
    /\ isVapiConnected = TRUE
    /\ vapiRef = TRUE
    /\ listenersAttachedRef = TRUE
    /\ startingRef = FALSE
    /\ activeCallRef = TRUE
    /\ creatingEventRef = FALSE
    /\ sessionIdRef = 1
    /\ detailsRef = details
    /\ startPc = "none"
    /\ createReqs = EmptyBag
    /\ updReqs = EmptyBag
    /\ procReqs = EmptyBag
    /\ env = [publicKey |-> TRUE, assistantId |-> TRUE]
    /\ sdkCall = "active"
    /\ backend = [s \in SessionIds |-> IF s = 1 THEN details ELSE EmptyDetails]
    /\ nextSid = 2
    /\ utterance = <<>>
    /\ answer = <<>>
    /\ attached = 1
    /\ heard = <<>>

NextTranscript ==
    \/ \E role \in {"ai", "user"}, text \in Utterances, isFinal \in BOOLEAN,
          ex \in Extracted :
          TranscriptDelivered(role, text, isFinal, ex)
    \/ \E q \in BagToSet(procReqs) : ProcessTranscriptReturn(q)
    \/ \E q \in BagToSet(createReqs), outcome \in {"success", "failed", "threw"} :
          CreateEventReturn(q, outcome)
    \/ CallEnd

SpecTranscript == InitTranscript /\ [][NextTranscript]_vars

(***************************************************************************)
(* Properties.                                                             *)
(***************************************************************************)
\* The api.createEvent calls in flight for session sid
CallsInFlightFor(sid) ==
    LET S == {q \in BagToSet(createReqs) : q.sid = sid}
    IN  BagCardinality([q \in S |-> createReqs[q]])

\* A step in which handleCreateEvent resumes from a failed api.createEvent
CreateFails ==
    \E q \in BagToSet(createReqs), outcome \in {"failed", "threw"} :
        CreateEventReturn(q, outcome)

\* A step in which the message handler runs for a final user utterance
FinalUserUtterance ==
    \E text \in Utterances, ex \in Extracted :
        TranscriptMessage("user", text, TRUE, ex)

\* name, date or time is empty
NotReady(d) ==
    Get(d, "name") = <<>> \/ Get(d, "date") = <<>> \/ Get(d, "time") = <<>>

\* C1: in every reachable state at most one api.createEvent request issued
\* by handleCreateEvent is outstanding.
C1_AtMostOneCreateInFlight == BagCardinality(createReqs) <= 1

\* C2: no session ever has two api.createEvent calls outstanding at once: a
\* trigger that arrives while a call of its session is outstanding makes no
\* second call.
C2_OneCallPerSession == \A sid \in SessionIds : CallsInFlightFor(sid) <= 1

\* C3: once the client is in phase "done" no step initiates a further
\* api.createEvent call (a reset leaves "done", so it ends the obligation).
C3_NoCreateAfterDone ==
    [][phase = "done" => createReqs' \sqsubseteq createReqs]_vars

\* C4: every api.createEvent call carries a record whose name, date and time
\* are all non-empty.
C4_CallsCarryCompleteRecord ==
    \A q \in BagToSet(createReqs) : ~NotReady(q.userDetails)

\* C5: whenever a creation attempt that acquired the guard ends, by a success
\* response, a response without success or a thrown error, creatingEventRef
\* is FALSE afterwards, so that the next trigger passes the guard.
C5_GuardReleasedOnEveryExit ==
    [][BagCardinality(createReqs') < BagCardinality(createReqs)
          => ~creatingEventRef']_vars

\* C5 witness: an attempt has thrown or failed, the guard is free, and the
\* session is still live with a complete record, so a trigger can retry.
C5_Witness ==
    /\ micError \in {"Failed to create event", "Error creating event"}
    /\ ~creatingEventRef
    /\ createReqs = EmptyBag
    /\ sdkCall = "active"
    /\ sessionIdRef # Null
    /\ localReady(detailsRef)

C7_FieldNeverErased ==
    [][(sessionId = Null \/ sessionId' # Null) =>
          \A k \in DetailKeys :
              Truthy(Get(details, k)) => Truthy(Get(details', k))]_vars

\* C8: at most one update or process request is in flight at a time (stated
\* for the first session, before any reset).
C8_OneUpdateInFlight ==
    nextSid = 2 => BagCardinality(updReqs) + BagCardinality(procReqs) <= 1

\* C9: a final user utterance handled while the local record (detailsRef, the
\* record the handler reads) lacks name, date or time starts no creation
\* attempt, whatever the utterance.
C9_NotReadyNeverCreates ==
    [][(FinalUserUtterance /\ NotReady(detailsRef))
          => createReqs' = createReqs]_vars

\* C9 witness: only the title is known, a final user utterance has been
\* handled (its transcript went to the backend) and no creation was started.
C9_Witness ==
    /\ detailsRef = [EmptyDetails EXCEPT !.title = vTitle]
    /\ procReqs # EmptyBag
    /\ createReqs = EmptyBag
    /\ ~creatingEventRef

\* C10: the readiness check that gates creation holds of the local record
\* exactly when name, date and time are non-empty after trimming.
C10_ReadyIffNonEmptyAfterTrim ==
    localReady(detailsRef) <=>
        /\ trim(Get(detailsRef, "name")) # <<>>
        /\ trim(Get(detailsRef, "date")) # <<>>
        /\ trim(Get(detailsRef, "time")) # <<>>

\* The tool-calls message that carries one meeting_scheduler call with
\* arguments a
SchedulerMessage(a) == << ToolCall("meeting_scheduler", a, <<>>) >>

\* Arguments a supply a non-empty value for field k
Supplies(a, k) == k \in DOMAIN a /\ a[k] # <<>>

C12_RecordHasExactlyTheFiveKeys == DOMAIN details = DetailKeys

\* C20: a meeting_scheduler call handled in a session puts every non-empty
\* field of its arguments into the local record before the backend is
\* called, also when the arguments carry a duration or a title alone.
C20_ArgumentsMergedBeforeBackendCall ==
    [][\A a \in MergeArgs :
          ToolCallsMessage(SchedulerMessage(a))
          => \A k \in DetailKeys : Supplies(a, k) => details'[k] = a[k]]_vars

\* The text of the call, "" when the argument is missing
TextOf(arg) == IF arg = <<>> THEN <<>> ELSE arg[1]

\* Some phrase of the affirmative set occurs in text at some position,
\* letter for letter when upper and lower case are not told apart
ContainsPhrase(text) ==
    \E p \in ConfirmPhrases, i \in 1..Len(text) :
        /\ i + Len(p) - 1 <= Len(text)
        /\ \A j \in 1..Len(p) : LowerChar(text[i + j - 1]) = p[j]

\* C13: isConfirmation returns true exactly for the texts that contain a
\* phrase of the affirmative set, whatever the case of the letters: true for
\* "Yes, that's correct" and "I said no, go ahead", false for "no", for the
\* empty text and for a missing text.
C13_ConfirmationIffContainsPhrase ==
    answer # <<>> =>
        /\ answer[1] = ContainsPhrase(TextOf(utterance))
        /\ utterance = << tYes \o tThats \o tCorrect >> => answer[1]
        /\ utterance = << tISaid \o tNo \o tGoAhead >> => answer[1]
        /\ utterance = << tNo >> => ~answer[1]
        /\ utterance \in { <<>>, << <<>> >> } => ~answer[1]

\* C13 witness: "I said no, go ahead" has been classified as a confirmation
C13_Witness ==
    utterance = << tISaid \o tNo \o tGoAhead >> /\ answer = << TRUE >>

\* C14 as stated: "no, that's not right" is classified as a confirmation.
C14_NegatedRightConfirms ==
    (utterance = << tNo \o tThats \o tNot \o tRight >> /\ answer # <<>>)
        => answer[1]

\* C14, amended: isConfirmation has no negation handling, a text it accepts
\* is accepted with "no, " or "not " put before it and "no, that's not
\* correct" is a confirmation; but "no, that's not right" is not one, since
\* "right" is a phrase of the set only as "that's right" or "that is right".
C14_NoNegationHandling ==
    answer # <<>> =>
        /\ utterance = << tNo \o tThats \o tNot \o tRight >> => ~answer[1]
        /\ utterance = << tNo \o tThats \o tNot \o tCorrect >> => answer[1]
        /\ answer[1] => /\ isConfirmation(tNo \o <<",", " ">> \o TextOf(utterance))
                        /\ isConfirmation(tNot \o TextOf(utterance))

\* C14 witness: "no, that's not right" has been classified, as no confirmation
C14_Witness ==
    utterance = << tNo \o tThats \o tNot \o tRight >> /\ answer = << FALSE >>

\* C15: handleReset leaves creatingEventRef false in whatever state it is
\* invoked, also while an api.createEvent call is outstanding.
C15_ResetClearsGuard == [][handleReset => ~creatingEventRef']_vars

\* C15 witness: the first session was reset while its api.createEvent call
\* was outstanding; the call still is, and the guard is free.
C15_Witness ==
    /\ nextSid = 2
    /\ sessionId = Null
    /\ phase = "idle"
    /\ createReqs # EmptyBag
    /\ ~creatingEventRef

\* C16: from a reset until the user starts a new session the client is in
\* phase "idle" with an empty detail record, whatever responses of earlier
\* requests arrive.
C16_IdleAndEmptyAfterReset ==
    (sessionId = Null /\ startPc = "none")
        => (phase = "idle" /\ details = EmptyDetails)

\* C17: the phase becomes "done" only in a step in which an api.createEvent
\* call of the current session's creation attempt returns success.
C17_DoneOnlyByCurrentAttempt ==
    [][(phase # "done" /\ phase' = "done")
          => \E q \in BagToSet(createReqs) :
                q.sid = sessionId /\ CreateEventReturn(q, "success")]_vars

\* A step in which the message handler runs for a final user confirmation
\* while the session's record is ready and the guard is held
UserConfirmsWhileHeld ==
    /\ creatingEventRef
    /\ sessionIdRef # Null
    /\ ~NotReady(detailsRef)
    /\ \E text \in Utterances, ex \in Extracted :
          isConfirmation(text) /\ TranscriptMessage("user", text, TRUE, ex)

\* C18: a user confirmation that finds the guard held is dropped: its handler
\* makes no api.createEvent call, sends nothing else whose response would
\* write the record, and leaves error text, chat, phase and detail record
\* as they are.
C18_HeldGuardDropsTrigger ==
    [][UserConfirmsWhileHeld =>
          /\ createReqs' = createReqs
          /\ procReqs' = procReqs
          /\ micError' = micError
          /\ messages' = messages
          /\ phase' = phase
          /\ details' = details]_vars

\* A step in which the continuation of a failed api.updateDetails or
\* api.processTranscript call runs
UpdateFails ==
    \/ \E q \in BagToSet(updReqs) : q.resp = Failed /\ UpdateDetailsReturn(q)
    \/ \E q \in BagToSet(procReqs) : q.resp = Failed /\ ProcessTranscriptReturn(q)

\* A step in which handleStart ends in its catch block
StartFails == InitSessionFails \/ VapiStartReturn(FALSE)

\* C19: after every failure (session start, transcript processing, tool
\* update, event creation) the error text is non-empty; a failed creation
\* leaves the guard free and a failed start leaves startingRef free.
C19_FailuresExplainedAndRetriable ==
    [][/\ (UpdateFails \/ CreateFails \/ StartFails) => micError' # ""
       /\ CreateFails => ~creatingEventRef'
       /\ StartFails => ~startingRef']_vars

\* C21: the arguments api.updateDetails sends for a patch carry the session
\* id it was called with under sessionId, also when the patch has a
\* sessionId key of its own, and every other key of the patch with the
\* patch's value, and no further key.
C21_ArgumentsCarrySessionIdAndPatch ==
    [][\A a \in MergeArgs :
          ToolCallsMessage(SchedulerMessage(a))
          => \E q \in BagToSet(updReqs') :
                /\ CopiesIn(q, updReqs') > CopiesIn(q, updReqs)
                /\ DOMAIN q.arguments = DOMAIN a \cup {"sessionId"}
                /\ q.arguments["sessionId"] = sessionIdRef
                /\ \A k \in DOMAIN a \ {"sessionId"} : q.arguments[k] = a[k]]_vars

\* C21 witness: a patch with a sessionId key of another session (the local
\* merge has copied it into the record) is on its way to the backend under
\* the session id of the call.
C21_Witness ==
    /\ "sessionId" \in DOMAIN details
    /\ details["sessionId"] # sessionIdRef
    /\ \E q \in BagToSet(updReqs) :
          q.arguments = [name |-> vNew, sessionId |-> sessionIdRef]

\* C22: creatingEventRef is true exactly when an api.createEvent request is
\* outstanding.
C22_GuardMirrorsRequestInFlight == creatingEventRef <=> createReqs # EmptyBag

\* C23: whenever handleStart establishes a new session id the local detail
\* record is empty.
C23_NewSessionStartsEmpty ==
    [][(sessionId' # sessionId /\ sessionId' # Null)
          => details' = EmptyDetails]_vars

\* C24: the record a new api.createEvent call carries is the detail record
\* as last written, also when the same handler wrote it just before the
\* trigger (no tool call of the conversation carries a record of its own).
C24_CreateCarriesLatestRecord ==
    [][\A q \in BagToSet(createReqs') :
          CopiesIn(q, createReqs') > CopiesIn(q, createReqs)
          => q.userDetails = details']_vars

\* C25: when the voice call is over, no start is under way and no creation
\* attempt is in flight, the phase is "idle" or "done".
C25_NoSessionPhaseWithoutCall ==
    (sdkCall = "none" /\ startPc = "none" /\ createReqs = EmptyBag)
        => phase \in {"idle", "done"}

\* C26: handleStart is under way exactly while startingRef is held, so the
\* flag is free after every exit (call started, missing key, missing
\* assistant id, thrown error), and a start begins only when the flag is
\* free: a click while it is held starts no session init.
C26_OneStartAtATime ==
    [][/\ startingRef' <=> startPc' # "none"
       /\ (startPc # "initSession" /\ startPc' = "initSession") => ~startingRef]_vars

\* C26 witness: a start has ended for want of the public key, with the
\* flag free, and the Start button showing again.
C26_Witness ==
    /\ micError = "Vapi public key not configured"
    /\ ~startingRef
    /\ startPc = "none"
    /\ phase = "idle"

\* C27: over any sequence of starts, call ends and resets the listeners are
\* attached to the Vapi instance at most once, and exactly once from the
\* first start on.
C27_ListenersAttachedOnce ==
    /\ attached <= 1
    /\ listenersAttachedRef <=> attached = 1

\* C27 witness: the second session's call is active, on the instance and
\* the listeners of the first.
C27_Witness ==
    /\ nextSid = 3
    /\ sdkCall = "active"
    /\ attached = 1

\* A step in which the handler runs for a partial transcript
PartialDelivered ==
    \E role \in {"ai", "user"}, text \in Utterances, ex \in Extracted :
        TranscriptDelivered(role, text, FALSE, ex)

\* C28: the handler of a partial transcript, of either role, starts no
\* creation attempt and sends no processTranscript request; a step of the
\* transcript branch that does either handles a final transcript while a
\* session id is set.
C28_PartialTranscriptStartsNothing ==
    [][/\ PartialDelivered => (createReqs' = createReqs /\ procReqs' = procReqs)
       /\ (\/ BagCardinality(createReqs') > BagCardinality(createReqs)
           \/ BagCardinality(procReqs') > BagCardinality(procReqs))
          => (heard' # <<>> /\ heard'[1].isFinal /\ sessionIdRef # Null)]_vars

\* C28 witness: a partial "Yes" of the user was the last transcript handled,
\* with a complete record and the guard free, and no creation has been
\* attempted.
C28_Witness ==
    /\ heard = << [role |-> "user", text |-> uYes, isFinal |-> FALSE] >>
    /\ localReady(detailsRef)
    /\ ~creatingEventRef
    /\ createReqs = EmptyBag
    /\ messages = 0

====
